---- MODULE Spec2Model ----
(***************************************************************************)
(* Model of the motion space (src/src/motion_core.rs) and of the channel   *)
(* protocol around MotionSpace::core_loop.                                 *)
(*                                                                         *)
(* Numbers: an f32 is modelled as a fixed-point integer with One standing   *)
(* for 1.0; every product and quotient is rounded to the nearest unit, as   *)
(* an f32 operation rounds to the nearest representable value.             *)
(* A VecN is modelled by its `data` (a sequence of numbers): the cached     *)
(* norm / normalized fields of VecN are written by norm() and normalize()   *)
(* but never read by the motion space, which reads `.data` only.           *)
(* An Option<VecN> is a sequence of length 0 (None) or 1 (Some(data)).     *)
(***************************************************************************)
EXTENDS Integers, Sequences, FiniteSets, TLC

\* ------------------------------------------------------------------ bounds
\* Length of an embedding (128 in the source, reduced for model checking).
EMBEDDING_DIM == 2
\* Capacity of each mpsc channel (64 in the source, reduced).
ChanCap == 2
\* Number of inputs the producer sends in one run.
MaxInputs == 3

\* ------------------------------------------------------------ fixed point
One == 1000

\* F(v), with v evaluated once (an argument of an operator is evaluated at
\* each of its uses).
With(v, F(_)) == CHOOSE r \in {F(t) : t \in {v}} : TRUE

\* n / d rounded to the nearest integer (d > 0), halves away from zero.
RDiv(n, d) == IF n >= 0 THEN (n + d \div 2) \div d
                        ELSE -(((-n) + d \div 2) \div d)

Mul(a, b) == RDiv(a * b, One)

\* Largest magnitude the series below is evaluated at; exp() of anything
\* below -ExpRange underflows to 0 at this resolution.
ExpRange == 7 * One

\* 1 + x + x^2/2! + ... until a term rounds to 0 (x >= 0); `term` is the
\* k-th term's predecessor and `acc` the sum before it. The next term and sum
\* are bound as values before the recursive call.
RECURSIVE ExpSeries(_, _, _, _)
ExpSeries(x, k, term, acc) ==
    IF term = 0 THEN acc
    ELSE CHOOSE r \in {ExpSeries(x, k + 1, t, a) :
                          t \in {RDiv(term * x, k * One)}, a \in {acc + term}} : TRUE

ExpOf(x) ==
    IF x = 0 THEN One
    ELSE IF x > 0 THEN ExpSeries(IF x > ExpRange THEN ExpRange ELSE x, 1, One, 0)
    ELSE IF x < -ExpRange THEN 0
    ELSE RDiv(One * One, ExpSeries(-x, 1, One, 0))

\* f32::exp
Exp(x) == With(x, LAMBDA v : ExpOf(v))

\* -------------------------------------------------------------- embedding
Texts == {"hello", "hey"}

\* hash_str of each whitespace token of the text, as the residue of the
\* 64-bit FNV-1a value modulo 384 (exact for every dim dividing 384).
TokenHashes(text) ==
    CASE text = "hello" -> <<267>>
      [] text = "hey"   -> <<125>>

\* hash_bytes of each character 3-gram of the text, same residues.
GramHashes(text) ==
    CASE text = "hello" -> <<46, 120, 158>>
      [] text = "hey"   -> <<125>>

RECURSIVE AddFeatures(_, _, _)
AddFeatures(bucket, hashes, inc) ==
    IF hashes = <<>> THEN bucket
    ELSE LET idx == (Head(hashes) % Len(bucket)) + 1
         IN  AddFeatures([bucket EXCEPT ![idx] = @ + inc], Tail(hashes), inc)

add_text_features(bucket, text) ==
    IF Len(bucket) = 0 THEN bucket
    ELSE AddFeatures(AddFeatures(bucket, TokenHashes(text), One),
                     GramHashes(text), (3 * One) \div 10)

embed_post(text) ==
    add_text_features([i \in 1..EMBEDDING_DIM |-> 0], text)

\* ----------------------------------------------------------------- kernel
gamma == 2 * One

RECURSIVE SumSeq(_)
SumSeq(s) == IF s = <<>> THEN 0 ELSE Head(s) + SumSeq(Tail(s))

MathErr(l, r) == [kind |-> "DimensionMismatch", left |-> l, right |-> r]

\* Result values: [ok |-> TRUE, val |-> v] or [ok |-> FALSE, err |-> e].
Ok(v) == [ok |-> TRUE, val |-> v]
Err(e) == [ok |-> FALSE, err |-> e]

rbf_kernel(x, y, g) ==
    IF Len(x) # Len(y) THEN Err(MathErr(Len(x), Len(y)))
    ELSE LET sq_dist == SumSeq([i \in 1..Len(x) |-> Mul(x[i] - y[i], x[i] - y[i])])
         IN  Ok(Exp(Mul(-g, sq_dist)))

kernel_apply(x, y) == rbf_kernel(x, y, gamma)

\* apply_kernel2(a, b, f) with f(x, y) = x * (1 - w) + y * w
apply_kernel2(a, b, w) ==
    IF Len(a) # Len(b) THEN Err(MathErr(Len(a), Len(b)))
    ELSE Ok([i \in 1..Len(a) |-> Mul(a[i], One - w) + Mul(b[i], w)])

\* weight = 1.0 - (-alpha * similarity).exp()
Weight(alpha, similarity) == One - Exp(Mul(-alpha, similarity))

\* ------------------------------------------------------------ data model
UserIds == {"U1", "U2"}
PostIds == {"P1", "P2"}
\* 0.5: the alpha of the synthesized interaction and the front-end's default.
DefaultAlpha == One \div 2

None == <<>>
Some(v) == <<v>>

\* MotionUser::new: no coordinate, motion 0.0 (the dim argument is unused)
MotionUser_new(id, d) == [tag |-> "User", id |-> id, coord |-> None, motion |-> 0]

\* MotionPost::new
MotionPost_new(id, coord) == [tag |-> "Post", id |-> id, coord |-> coord]

UserNotFound(id)   == [kind |-> "UserNotFound", user_id |-> id]
PostNotFound(id)   == [kind |-> "PostNotFound", post_id |-> id]
CoordNotLoaded(id) == [kind |-> "CoordNotLoaded", user_id |-> id]
Math(e)            == [kind |-> "Math", math |-> e]
ChannelError       == [kind |-> "ChannelError"]

InteractionResult(src, dst, weight, similarity) ==
    [src_id |-> src, dst_id |-> dst, weight |-> weight, similarity |-> similarity]

\* MotionOutput::Updated (core_loop has no send of it)
Updated(entry) == [kind |-> "Updated", entry |-> entry]

\* Mutant: an entry is announced as Updated.
Entered_AsUpdated(entry) == Updated(entry)

Entered(entry) == [kind |-> "Entered", entry |-> entry]
InteractionApplied(res) == [kind |-> "InteractionApplied", res |-> res]

UserInput(id) == [kind |-> "User", id |-> id]
PostInput(id, user_id, text) ==
    [kind |-> "Post", id |-> id, user_id |-> user_id, text |-> text]
Interaction(type, src, dst, alpha) ==
    [kind |-> "Interaction", interaction_type |-> type,
     src_id |-> src, dst_id |-> dst, alpha |-> alpha]

\* The text a user posts: each user of the model posts one text, so that two
\* posts of different users (also two with the same post id) have different
\* coordinates.
TextOf(u) == IF u = "U1" THEN "hello" ELSE "hey"

\* The inputs a sender may put on the input channel, with the Interaction
\* inputs carrying an alpha of `alphas`.
InputsOver(alphas) ==
    {UserInput(u) : u \in UserIds}
    \cup {PostInput(p, u, TextOf(u)) : p \in PostIds, u \in UserIds}
    \cup {Interaction("PostToUser", p, u, a) : p \in PostIds, u \in UserIds, a \in alphas}
    \cup {Interaction("UserToUser", a, b, al) : a \in UserIds, b \in UserIds, al \in alphas}

Inputs == InputsOver({DefaultAlpha})

\* ------------------------------------------------------------ motion space
\* Mutant: the entry is inserted at the front.
enter_Front(es, entry) == <<entry>> \o es

\* MotionSpace::enter
enter(es, entry) == Append(es, entry)

\* Mutant: the index of the last match.
Position_Last(es, tag, id) ==
    LET hits == {i \in 1..Len(es) : es[i].tag = tag /\ es[i].id = id}
    IN  IF hits = {} THEN 0 ELSE CHOOSE i \in hits : \A j \in hits : i >= j

\* entries.iter().position(|e| matches!(e, <tag>(x) if x.id == id)):
\* the index of the first match, 0 for None.
Position(es, tag, id) ==
    LET hits == {i \in 1..Len(es) : es[i].tag = tag /\ es[i].id = id}
    IN  IF hits = {} THEN 0 ELSE CHOOSE i \in hits : \A j \in hits : i <= j

\* Mutant: the user of a Post input is always taken to be unseen.
UserUnseen_Always(es, user_id) == TRUE

\* Line 290: entries.iter().all(|e| !matches!(e, User(u) if u.id == user_id))
UserUnseen(es, user_id) ==
    \A i \in 1..Len(es) : ~(es[i].tag = "User" /\ es[i].id = user_id)

\* What an apply_* call leaves behind: the entries and the Result.
Outcome(es, result) == [entries |-> es, result |-> result]

\* motion' = (1 - decay) * motion + gain * weight, decay = 0.02
NewMotion(motion, gain, weight) ==
    Mul(One - One \div 50, motion) + Mul(gain, weight)

\* Mutant: the actor's coordinate is moved out instead of stored.
PersistUserToUser_Take(es, actor_idx, target_idx, new_actor, new_target, new_actor_motion, new_target_motion) ==
    LET es1 == [es EXCEPT ![target_idx].coord = Some(new_target),
                          ![target_idx].motion = new_target_motion]
    IN  [es1 EXCEPT ![actor_idx].coord = None,
                    ![actor_idx].motion = new_actor_motion]

\* The two writes that end apply_user_to_user: the target first, then the actor.
PersistUserToUser(es, actor_idx, target_idx, new_actor, new_target, new_actor_motion, new_target_motion) ==
    LET es1 == [es EXCEPT ![target_idx].coord = Some(new_target),
                          ![target_idx].motion = new_target_motion]
    IN  [es1 EXCEPT ![actor_idx].coord = Some(new_actor),
                    ![actor_idx].motion = new_actor_motion]

\* Mutant: the target's coordinate is checked first.
CoordCheck_TargetFirst(a, t, actor_id, target_id) ==
    IF t.coord = None THEN Err(CoordNotLoaded(target_id))
    ELSE IF a.coord = None THEN Err(CoordNotLoaded(actor_id))
    ELSE Ok(<<a.coord[1], t.coord[1]>>)

\* The coordinate checks of apply_user_to_user: the actor's first.
CoordCheck(a, t, actor_id, target_id) ==
    IF a.coord = None THEN Err(CoordNotLoaded(actor_id))
    ELSE IF t.coord = None THEN Err(CoordNotLoaded(target_id))
    ELSE Ok(<<a.coord[1], t.coord[1]>>)

\* Lines 159-194 of apply_user_to_user: both coordinates are loaded.
UserToUserBlend(es, actor_idx, target_idx, actor_id, target_id, alpha) ==
    With(kernel_apply(es[actor_idx].coord[1], es[target_idx].coord[1]), LAMBDA sim :
    IF ~sim.ok THEN Outcome(es, Err(Math(sim.err)))
    ELSE
    With(Weight(alpha, sim.val), LAMBDA weight :
    With(Mul(One \div 2, weight), LAMBDA step :
    With(apply_kernel2(es[actor_idx].coord[1], es[target_idx].coord[1], step), LAMBDA new_actor :
    With(apply_kernel2(es[target_idx].coord[1], es[actor_idx].coord[1], step), LAMBDA new_target :
    IF ~new_actor.ok THEN Outcome(es, Err(Math(new_actor.err)))
    ELSE IF ~new_target.ok THEN Outcome(es, Err(Math(new_target.err)))
    ELSE
    Outcome(PersistUserToUser(es, actor_idx, target_idx,
                              new_actor.val, new_target.val,
                              NewMotion(es[actor_idx].motion, One \div 2, weight),
                              NewMotion(es[target_idx].motion, One, weight)),
            Ok(InteractionResult(actor_id, target_id, weight, sim.val))))))))

\* Mutant: the actor's coordinate is checked before the target is looked up.
apply_user_to_user_CoordFirst(es, actor_id, target_id, alpha) ==
    With(Position(es, "User", actor_id), LAMBDA actor_idx :
    With(Position(es, "User", target_id), LAMBDA target_idx :
    IF actor_idx = 0 THEN Outcome(es, Err(UserNotFound(actor_id)))
    ELSE IF es[actor_idx].coord = None THEN Outcome(es, Err(CoordNotLoaded(actor_id)))
    ELSE IF target_idx = 0 THEN Outcome(es, Err(UserNotFound(target_id)))
    ELSE
    With(CoordCheck(es[actor_idx], es[target_idx], actor_id, target_id), LAMBDA coords :
    IF ~coords.ok THEN Outcome(es, coords)
    ELSE UserToUserBlend(es, actor_idx, target_idx, actor_id, target_id, alpha))))

apply_user_to_user(es, actor_id, target_id, alpha) ==
    With(Position(es, "User", actor_id), LAMBDA actor_idx :
    With(Position(es, "User", target_id), LAMBDA target_idx :
    IF actor_idx = 0 THEN Outcome(es, Err(UserNotFound(actor_id)))
    ELSE IF target_idx = 0 THEN Outcome(es, Err(UserNotFound(target_id)))
    ELSE
    With(CoordCheck(es[actor_idx], es[target_idx], actor_id, target_id), LAMBDA coords :
    IF ~coords.ok THEN Outcome(es, coords)
    ELSE UserToUserBlend(es, actor_idx, target_idx, actor_id, target_id, alpha))))

\* Lines 213-224 of apply_post_to_user: the first User with the id, or a
\* fresh one pushed at the end.
FindOrCreateUser(es, user_id, d) ==
    IF Position(es, "User", user_id) # 0 THEN es
    ELSE Append(es, MotionUser_new(user_id, d))

\* Mutant: every User with the id that has no coordinate is seeded.
SeedCoord_All(es, user_idx, post_coord) ==
    [i \in 1..Len(es) |->
        IF es[i].tag = "User" /\ es[i].id = es[user_idx].id /\ es[i].coord = None
        THEN [es[i] EXCEPT !.coord = Some(post_coord)]
        ELSE es[i]]

\* Mutant: the absent coordinate is seeded with the zero vector.
SeedCoord_Zero(es, user_idx, post_coord) ==
    IF es[user_idx].coord = None
    THEN [es EXCEPT ![user_idx].coord = Some([i \in 1..Len(post_coord) |-> 0])]
    ELSE es

\* u.coord.get_or_insert_with(|| post_coord.clone())
SeedCoord(es, user_idx, post_coord) ==
    IF es[user_idx].coord = None
    THEN [es EXCEPT ![user_idx].coord = Some(post_coord)]
    ELSE es

\* Mutant: the motion is decayed before the kernel is applied, so that a
\* Math fault leaves the decayed motion behind.
PostToUserBlend_DecayFirst(es, user_idx, post_coord, user_id, post_id, alpha) ==
    With(kernel_apply(es[user_idx].coord[1], post_coord), LAMBDA sim :
    IF ~sim.ok
    THEN Outcome([es EXCEPT ![user_idx].motion = NewMotion(es[user_idx].motion, One, 0)],
                 Err(Math(sim.err)))
    ELSE
    With(Weight(alpha, sim.val), LAMBDA weight :
    With(apply_kernel2(es[user_idx].coord[1], post_coord, weight), LAMBDA new_data :
    IF ~new_data.ok THEN Outcome(es, Err(Math(new_data.err)))
    ELSE
    Outcome([es EXCEPT ![user_idx].coord = Some(new_data.val),
                       ![user_idx].motion = NewMotion(es[user_idx].motion, One, weight)],
            Ok(InteractionResult(post_id, user_id, weight, sim.val))))))

\* Lines 229-260 of apply_post_to_user: the user at user_idx holds a
\* coordinate.
PostToUserBlend(es, user_idx, post_coord, user_id, post_id, alpha) ==
    With(kernel_apply(es[user_idx].coord[1], post_coord), LAMBDA sim :
    IF ~sim.ok THEN Outcome(es, Err(Math(sim.err)))
    ELSE
    With(Weight(alpha, sim.val), LAMBDA weight :
    With(apply_kernel2(es[user_idx].coord[1], post_coord, weight), LAMBDA new_data :
    IF ~new_data.ok THEN Outcome(es, Err(Math(new_data.err)))
    ELSE
    Outcome([es EXCEPT ![user_idx].coord = Some(new_data.val),
                       ![user_idx].motion = NewMotion(es[user_idx].motion, One, weight)],
            Ok(InteractionResult(post_id, user_id, weight, sim.val))))))

\* Mutant: the user is located or created before the post is looked up.
apply_post_to_user_CreateFirst(es, d, user_id, post_id, alpha) ==
    With(FindOrCreateUser(es, user_id, d), LAMBDA es1 :
    With(Position(es1, "Post", post_id), LAMBDA post_idx :
    IF post_idx = 0 THEN Outcome(es1, Err(PostNotFound(post_id)))
    ELSE
    With(Position(es1, "User", user_id), LAMBDA user_idx :
    With(SeedCoord(es1, user_idx, es1[post_idx].coord), LAMBDA es2 :
    PostToUserBlend(es2, user_idx, es1[post_idx].coord, user_id, post_id, alpha)))))

apply_post_to_user(es, d, user_id, post_id, alpha) ==
    With(Position(es, "Post", post_id), LAMBDA post_idx :
    IF post_idx = 0 THEN Outcome(es, Err(PostNotFound(post_id)))
    ELSE
    With(FindOrCreateUser(es, user_id, d), LAMBDA es1 :
    With(Position(es1, "User", user_id), LAMBDA user_idx :
    With(SeedCoord(es1, user_idx, es[post_idx].coord), LAMBDA es2 :
    PostToUserBlend(es2, user_idx, es[post_idx].coord, user_id, post_id, alpha)))))

\* Mutant: the UserToUser rule is called with actor and target exchanged.
apply_interaction_Swapped(es, d, interaction) ==
    With(es, LAMBDA space :
    IF interaction.interaction_type = "PostToUser"
    THEN apply_post_to_user(space, d, interaction.dst_id, interaction.src_id, interaction.alpha)
    ELSE apply_user_to_user(space, interaction.dst_id, interaction.src_id, interaction.alpha))

\* MotionSpace::apply_interaction
apply_interaction(es, d, interaction) ==
    With(es, LAMBDA space :
    IF interaction.interaction_type = "PostToUser"
    THEN apply_post_to_user(space, d, interaction.dst_id, interaction.src_id, interaction.alpha)
    ELSE apply_user_to_user(space, interaction.src_id, interaction.dst_id, interaction.alpha))

\* ------------------------------------------------------------------ state
VARIABLES
    dim,        \* MotionSpace.dim
    entries,    \* MotionSpace.entries
    in_chan,    \* items buffered in the input channel (front is the oldest)
    in_closed,  \* every Sender<MotionInput> has been dropped
    out_chan,   \* items buffered in the output channel
    out_closed, \* the Receiver<MotionOutput> has been dropped
    pc,         \* the await point core_loop is suspended at, or "done"
    cur,        \* the input core_loop is processing
    pending,    \* the output core_loop is about to send
    result,     \* what core_loop returned, once pc = "done"
    sent,       \* history: the inputs sent on the input channel, in order
    sink_log,   \* history: the outputs received by the sink, in order
    log         \* history: the inputs taken and outputs sent by core_loop, in order

vars == <<dim, entries, in_chan, in_closed, out_chan, out_closed, pc, cur,
          pending, result, sent, sink_log, log>>

NoInput  == [kind |-> "None"]
NoOutput == [kind |-> "None"]
Running  == [state |-> "Running"]
TerminatedOk == [state |-> "Ok"]
TerminatedErr(e) == [state |-> "Err", err |-> e]

\* The ids of the User entries of the space.
UsersOf(es) == {es[i].id : i \in {j \in 1..Len(es) : es[j].tag = "User"}}

\* History records: an input taken (with the user ids the space held at that
\* moment) and an output sent.
RecvEv(input, es) == [ev |-> "recv", input |-> input, users |-> UsersOf(es)]
EmitEv(output) == [ev |-> "emit", output |-> output]

\* main: MotionSpace::new(EMBEDDING_DIM) and the two channels.
Init ==
    /\ dim = EMBEDDING_DIM
    /\ entries = <<>>
    /\ in_chan = <<>>
    /\ in_closed = FALSE
    /\ out_chan = <<>>
    /\ out_closed = FALSE
    /\ pc = "recv"
    /\ cur = NoInput
    /\ pending = NoOutput
    /\ result = Running
    /\ sent = <<>>
    /\ sink_log = <<>>
    /\ log = <<>>

\* ------------------------------------------------------------ environment
\* A sender puts one input of `choice` on the input channel (waits while it
\* is full).
SendFrom(choice) ==
    /\ ~in_closed
    /\ pc # "done"
    /\ Len(sent) < MaxInputs
    /\ Len(in_chan) < ChanCap
    /\ \E inp \in choice :
         /\ in_chan' = Append(in_chan, inp)
         /\ sent' = Append(sent, inp)
    /\ UNCHANGED <<dim, entries, in_closed, out_chan, out_closed, pc, cur,
                   pending, result, sink_log, log>>

SendInput == SendFrom(Inputs)

\* The last sender is dropped.
CloseInput ==
    /\ ~in_closed
    /\ in_closed' = TRUE
    /\ UNCHANGED <<dim, entries, in_chan, out_chan, out_closed, pc, cur,
                   pending, result, sent, sink_log, log>>

\* A send after core_loop returned (its Receiver is dropped) yields Err, also
\* for a sender waiting on a full channel: input_loop returns
\* Err(ChannelError) and its Sender is dropped.
SendRejected ==
    /\ ~in_closed
    /\ pc = "done"
    /\ in_closed' = TRUE
    /\ UNCHANGED <<dim, entries, in_chan, out_chan, out_closed, pc, cur,
                   pending, result, sent, sink_log, log>>

\* The sink takes the oldest buffered output.
SinkRecv ==
    /\ ~out_closed
    /\ out_chan # <<>>
    /\ sink_log' = Append(sink_log, Head(out_chan))
    /\ out_chan' = Tail(out_chan)
    /\ UNCHANGED <<dim, entries, in_chan, in_closed, out_closed, pc, cur,
                   pending, result, sent, log>>

\* The sink drops its receiver: what is buffered is discarded.
SinkDrop ==
    /\ ~out_closed
    /\ out_closed' = TRUE
    /\ out_chan' = <<>>
    /\ UNCHANGED <<dim, entries, in_chan, in_closed, pc, cur, pending,
                   result, sent, sink_log, log>>

\* -------------------------------------------------------------- core_loop
\* core_loop returns: `r` is its result, the receiver of the input channel
\* is dropped with it.
Return(r) ==
    /\ pc' = "done"
    /\ result' = r
    /\ cur' = NoInput
    /\ pending' = NoOutput

\* Mutant: the fault is dropped and the loop goes on with the next input.
Propagate_Continue(e) ==
    /\ pc' = "recv"
    /\ result' = result
    /\ cur' = NoInput
    /\ pending' = NoOutput

\* The `?` on a fault: core_loop returns Err(e) at once.
Propagate(e) == Return(TerminatedErr(e))

\* core_loop suspends in tx.send(out) at await point `at`.
Suspend(at, out) ==
    /\ pc' = at
    /\ pending' = out
    /\ result' = result

\* Mutant: the synthesized interaction has the post's and the user's id
\* exchanged.
Synthesized_Swapped(post) == Interaction("PostToUser", post.user_id, post.id, DefaultAlpha)

\* Lines 299-305: the Post-to-User interaction synthesized for a Post input.
Synthesized(post) == Interaction("PostToUser", post.id, post.user_id, DefaultAlpha)

\* `let res = self.apply_interaction(interaction)?;` followed by the send of
\* InteractionApplied(res): an Err returns at once.
ApplyThenSend(es, interaction) ==
    \E r \in {apply_interaction(es, dim, interaction)} :
        /\ entries' = r.entries
        /\ IF r.result.ok
           THEN Suspend("send_applied", InteractionApplied(r.result.val)) /\ cur' = cur
           ELSE Propagate(r.result.err)

\* rx.recv() yields an input: its log entry.
Take ==
    /\ pc = "recv"
    /\ in_chan # <<>>
    /\ cur' = Head(in_chan)
    /\ in_chan' = Tail(in_chan)
    /\ log' = Append(log, RecvEv(Head(in_chan), entries))
    /\ UNCHANGED <<dim, in_closed, out_chan, out_closed, sent, sink_log>>

\* MotionInput::User, up to the send of Entered.
RecvUser ==
    /\ Take
    /\ Head(in_chan).kind = "User"
    /\ LET entry == MotionUser_new(Head(in_chan).id, dim) IN
         /\ entries' = enter(entries, entry)
         /\ Suspend("send_user", Entered(entry))

\* MotionInput::Post, up to the send of Entered(post).
RecvPost ==
    /\ Take
    /\ Head(in_chan).kind = "Post"
    /\ LET entry == MotionPost_new(Head(in_chan).id, embed_post(Head(in_chan).text)) IN
         /\ entries' = enter(entries, entry)
         /\ Suspend("send_post", Entered(entry))

\* MotionInput::Interaction, up to the send of InteractionApplied.
RecvInteraction ==
    /\ pc = "recv"
    /\ in_chan # <<>>
    /\ Head(in_chan).kind = "Interaction"
    /\ in_chan' = Tail(in_chan)
    /\ log' = Append(log, RecvEv(Head(in_chan), entries))
    /\ \E r \in {apply_interaction(entries, dim, Head(in_chan))} :
         /\ entries' = r.entries
         /\ IF r.result.ok
            THEN Suspend("send_applied", InteractionApplied(r.result.val))
                 /\ cur' = Head(in_chan)
            ELSE Propagate(r.result.err)
    /\ UNCHANGED <<dim, in_closed, out_chan, out_closed, sent, sink_log>>

\* Mutant: a closed channel yields None at once, whatever it still holds.
RecvClosed_Eager ==
    /\ pc = "recv"
    /\ in_closed
    /\ Return(TerminatedOk)
    /\ UNCHANGED <<dim, entries, in_chan, in_closed, out_chan, out_closed,
                   sent, sink_log, log>>

\* Mutant: an empty channel is taken for a closed one.
RecvClosed_Empty ==
    /\ pc = "recv"
    /\ in_chan = <<>>
    /\ Return(TerminatedOk)
    /\ UNCHANGED <<dim, entries, in_chan, in_closed, out_chan, out_closed,
                   sent, sink_log, log>>

\* rx.recv() yields None: the channel is closed and empty.
RecvClosed ==
    /\ pc = "recv"
    /\ in_chan = <<>>
    /\ in_closed
    /\ Return(TerminatedOk)
    /\ UNCHANGED <<dim, entries, in_chan, in_closed, out_chan, out_closed,
                   sent, sink_log, log>>

\* Mutant: a send completes whatever the buffer holds.
CanSend_Unbounded(at) == pc = at

\* tx.send(pending).await at await point `at` completes: Ok when the
\* receiver lives and the buffer has room, Err when the receiver is gone.
CanSend(at) ==
    /\ pc = at
    /\ (out_closed \/ Len(out_chan) < ChanCap)

\* Mutant: the output is put at the front of the buffer.
Delivered_Front ==
    /\ out_chan' = <<pending>> \o out_chan
    /\ log' = Append(log, EmitEv(pending))

Delivered ==
    /\ out_chan' = Append(out_chan, pending)
    /\ log' = Append(log, EmitEv(pending))

\* Mutant: the entry pushed before the failed send is taken back.
Undelivered_Rollback ==
    /\ Propagate(ChannelError)
    /\ entries' = SubSeq(entries, 1, Len(entries) - 1)
    /\ UNCHANGED <<out_chan, log>>

Undelivered ==
    /\ Propagate(ChannelError)
    /\ UNCHANGED <<entries, out_chan, log>>

\* Post branch: Entered(post) is sent; then lines 290-305.
SendPostEntered ==
    /\ CanSend("send_post")
    /\ IF out_closed THEN Undelivered
       ELSE /\ Delivered
            /\ IF UserUnseen(entries, cur.user_id)
               THEN LET user_entry == MotionUser_new(cur.user_id, dim) IN
                      /\ entries' = enter(entries, user_entry)
                      /\ Suspend("send_post_user", Entered(user_entry))
                      /\ cur' = cur
               ELSE ApplyThenSend(entries, Synthesized(cur))
    /\ UNCHANGED <<dim, in_chan, in_closed, out_closed, sent, sink_log>>

\* Post branch: Entered(user) is sent; then lines 299-305.
SendPostUserEntered ==
    /\ CanSend("send_post_user")
    /\ IF out_closed THEN Undelivered
       ELSE Delivered /\ ApplyThenSend(entries, Synthesized(cur))
    /\ UNCHANGED <<dim, in_chan, in_closed, out_closed, sent, sink_log>>

\* User branch: Entered(user) is sent; the loop goes back to rx.recv().
SendUserEntered ==
    /\ CanSend("send_user")
    /\ IF out_closed THEN Undelivered
       ELSE /\ Delivered
            /\ pc' = "recv" /\ cur' = NoInput /\ pending' = NoOutput
            /\ UNCHANGED <<entries, result>>
    /\ UNCHANGED <<dim, in_chan, in_closed, out_closed, sent, sink_log>>

\* InteractionApplied is sent; the loop goes back to rx.recv().
SendApplied ==
    /\ CanSend("send_applied")
    /\ IF out_closed THEN Undelivered
       ELSE /\ Delivered
            /\ pc' = "recv" /\ cur' = NoInput /\ pending' = NoOutput
            /\ UNCHANGED <<entries, result>>
    /\ UNCHANGED <<dim, in_chan, in_closed, out_closed, sent, sink_log>>

CoreStep ==
    \/ RecvUser
    \/ RecvPost
    \/ RecvInteraction
    \/ RecvClosed
    \/ SendPostEntered
    \/ SendPostUserEntered
    \/ SendUserEntered
    \/ SendApplied

Next ==
    \/ SendInput
    \/ SendRejected
    \/ CloseInput
    \/ SinkRecv
    \/ SinkDrop
    \/ CoreStep

Spec == Init /\ [][Next]_vars

\* The tokio runtime polls a task that can make progress: core_loop takes its
\* next step when one is possible, and the sink (the loop of main) takes the
\* next output when one is buffered.
FairSpec == Spec /\ WF_vars(CoreStep) /\ WF_vars(SinkRecv)

\* ----------------------------------------------------------------- claims
\* Helpers over the history `log`.
RecvIdx == {i \in 1..Len(log) : log[i].ev = "recv"}

\* The index after the last event of the input taken at log index i.
SegEnd(i) ==
    LET later == {j \in RecvIdx : j > i}
    IN  IF later = {} THEN Len(log) + 1
        ELSE CHOOSE j \in later : \A k \in later : j <= k

\* The outputs core_loop sent for the input taken at log index i.
OutputsOf(i) == [k \in 1..(SegEnd(i) - i - 1) |-> log[i + k].output]

\* The input taken at log index i has been processed to its end: a later
\* input was taken, or the loop is back at rx.recv(), or it returned Ok.
Completed(i) == SegEnd(i) <= Len(log) \/ pc = "recv" \/ result.state = "Ok"

IsPrefix(s, t) == Len(s) <= Len(t) /\ \A k \in 1..Len(s) : s[k] = t[k]

\* All outputs sent so far, in order.
Emitted ==
    LET idx == {i \in 1..Len(log) : log[i].ev = "emit"}
        F[i \in 0..Len(log)] ==
            IF i = 0 THEN <<>>
            ELSE IF i \in idx THEN Append(F[i - 1], log[i].output) ELSE F[i - 1]
    IN  F[Len(log)]

\* C1 -- Cold start: when the first input taken from a fresh space is a Post
\* {id, user_id, text}, the outputs sent for it are, in this order,
\* Entered(Post id) with the embedding of the text, Entered(User user_id) with
\* no coordinate and motion 0, and InteractionApplied{src = id, dst = user_id}
\* with similarity 1.0 and weight 1 - exp(-0.5): nothing else is sent for it,
\* and all three have been sent once the input is processed to its end.
ColdStartOutputs(inp) ==
    << Entered(MotionPost_new(inp.id, embed_post(inp.text))),
       Entered(MotionUser_new(inp.user_id, dim)),
       InteractionApplied(InteractionResult(inp.id, inp.user_id,
                                            One - Exp(-(One \div 2)), One)) >>

C1_ColdStart ==
    (Len(log) >= 1 /\ log[1].input.kind = "Post") =>
        /\ IsPrefix(OutputsOf(1), ColdStartOutputs(log[1].input))
        /\ Completed(1) => Len(OutputsOf(1)) = 3

C1_Witness ==
    /\ Len(log) >= 4
    /\ log[1].input = PostInput("P1", "U1", "hello")
    /\ log[4].ev = "emit"
    /\ log[4].output.kind = "InteractionApplied"
    /\ log[4].output.res.similarity = One
    /\ pc = "recv"

\* The shape of an output: its kind and the ids it carries; for an
\* Entered(User) also the coordinate and the motion.
Shape(o) ==
    IF o.kind = "InteractionApplied"
    THEN <<"InteractionApplied", o.res.src_id, o.res.dst_id>>
    ELSE IF o.entry.tag = "User"
    THEN <<"Entered", "User", o.entry.id, o.entry.coord, o.entry.motion>>
    ELSE <<"Entered", "Post", o.entry.id>>

\* The shapes of the outputs an input gives rise to when nothing faults,
\* `users` being the ids of the User entries before the input was taken.
Pattern(inp, users) ==
    IF inp.kind = "User"
    THEN << <<"Entered", "User", inp.id, None, 0>> >>
    ELSE IF inp.kind = "Post"
    THEN << <<"Entered", "Post", inp.id>> >>
         \o (IF inp.user_id \in users THEN <<>>
             ELSE << <<"Entered", "User", inp.user_id, None, 0>> >>)
         \o << <<"InteractionApplied", inp.id, inp.user_id>> >>
    ELSE << <<"InteractionApplied", inp.src_id, inp.dst_id>> >>

ShapesOf(i) == [k \in 1..Len(OutputsOf(i)) |-> Shape(OutputsOf(i)[k])]

\* C2 -- For every input taken by core_loop, the outputs sent for it before
\* the next input is taken are, in order: for a User input one Entered(User)
\* with no coordinate and motion 0; for a Post input Entered(Post), then
\* Entered(User) iff no User entry with that user_id existed when the input
\* was taken, then InteractionApplied; for an Interaction input one
\* InteractionApplied. An input processed to its end has sent all of them;
\* one cut short by a fault has sent a proper prefix.
C2_EmissionOrder ==
    \A i \in RecvIdx :
        LET pat == Pattern(log[i].input, log[i].users) IN
        /\ IsPrefix(ShapesOf(i), pat)
        /\ Completed(i) => ShapesOf(i) = pat

\* A Post input whose user already existed has been processed to its end
\* (two outputs), after an earlier input.
C2_Witness ==
    \E i \in RecvIdx :
        /\ i > 1
        /\ log[i].input.kind = "Post"
        /\ log[i].input.user_id \in log[i].users
        /\ Len(OutputsOf(i)) = 2
        /\ \E j \in RecvIdx : j > i

\* The (src_id, dst_id) of the InteractionApplied each input of `ins` gives
\* rise to, in order: an Interaction input its own ids, a Post input the
\* post's id and its user's id, a User input none.
RECURSIVE AppliedIdsOfInputs(_)
AppliedIdsOfInputs(ins) ==
    IF ins = <<>> THEN <<>>
    ELSE LET h == Head(ins)
             me == IF h.kind = "Interaction" THEN << <<h.src_id, h.dst_id>> >>
                   ELSE IF h.kind = "Post" THEN << <<h.id, h.user_id>> >>
                   ELSE <<>>
         IN  me \o AppliedIdsOfInputs(Tail(ins))

\* The (src_id, dst_id) of the InteractionApplied outputs of `outs`, in order.
RECURSIVE AppliedIdsOfOutputs(_)
AppliedIdsOfOutputs(outs) ==
    IF outs = <<>> THEN <<>>
    ELSE LET h == Head(outs)
             me == IF h.kind = "InteractionApplied"
                   THEN << <<h.res.src_id, h.res.dst_id>> >> ELSE <<>>
         IN  me \o AppliedIdsOfOutputs(Tail(outs))

\* C3 -- The sink receives the outputs in the order core_loop sent them, and
\* the k-th InteractionApplied it receives carries the ids of the k-th input
\* sent that gives rise to one (none duplicated, none out of order); when
\* the loop has returned Ok and the sink has drained the output channel, it
\* has received one InteractionApplied for each such input sent (none lost).
C3_InteractionOrder ==
    /\ IsPrefix(sink_log, Emitted)
    /\ IsPrefix(AppliedIdsOfOutputs(sink_log), AppliedIdsOfInputs(sent))
    /\ (result.state = "Ok" /\ out_chan = <<>> /\ ~out_closed) =>
           AppliedIdsOfOutputs(sink_log) = AppliedIdsOfInputs(sent)

\* A Post and then two Interaction inputs sent back to back, with different
\* ids; the sink has received everything, the two InteractionApplied last.
C3_Witness ==
    /\ Len(sent) = 3
    /\ sent[2].kind = "Interaction" /\ sent[3].kind = "Interaction"
    /\ <<sent[2].src_id, sent[2].dst_id>> # <<sent[3].src_id, sent[3].dst_id>>
    /\ Len(AppliedIdsOfOutputs(sink_log)) = 3
    /\ sink_log[Len(sink_log) - 1].kind = "InteractionApplied"
    /\ sink_log[Len(sink_log)].kind = "InteractionApplied"
    /\ result.state = "Ok"

\* C4 -- (a) When core_loop waits in rx.recv() and the input channel is
\* closed and empty, its next step is to return Ok, and that step sends no
\* output; after an Ok return no output is ever sent. (b) core_loop has
\* returned Ok only in states where the input channel is closed and empty.
\* (c) Once the input channel is closed, core_loop eventually returns.
C4_OkReturnStep ==
    (pc = "recv" /\ in_closed /\ in_chan = <<>> /\ pc' # pc) =>
        (pc' = "done" /\ result' = TerminatedOk /\ log' = log /\ out_chan' = out_chan)

C4_QuietAfterOk ==
    result.state = "Ok" => (log' = log /\ result' = result /\ Len(out_chan') <= Len(out_chan))

C4_CleanTermination ==
    /\ [][C4_OkReturnStep /\ C4_QuietAfterOk]_vars
    /\ [](result.state = "Ok" => (in_closed /\ in_chan = <<>> /\ pc = "done"))
    /\ (in_closed ~> pc = "done")

\* The input channel was closed with an input still buffered; core_loop
\* processed it and then returned Ok.
C4_Witness ==
    /\ result.state = "Ok"
    /\ Len(sent) >= 2
    /\ Len(log) >= 4
    /\ sink_log = Emitted

\* Once core_loop has returned, it takes no input, sends no output and
\* leaves the space as it is.
StaysReturned ==
    pc = "done" =>
        /\ pc' = "done" /\ result' = result
        /\ entries' = entries /\ log' = log
        /\ IsPrefix(in_chan, in_chan')
        /\ Len(out_chan') <= Len(out_chan)

\* The interaction the next step of core_loop applies, if that step applies
\* one: <<interaction>>, or <<>>.
AboutToApply ==
    IF pc = "recv" /\ in_chan # <<>> /\ Head(in_chan).kind = "Interaction"
    THEN <<Head(in_chan)>>
    ELSE IF pc = "send_post" /\ ~out_closed /\ ~UserUnseen(entries, cur.user_id)
    THEN <<Synthesized(cur)>>
    ELSE IF pc = "send_post_user" /\ ~out_closed
    THEN <<Synthesized(cur)>>
    ELSE <<>>

\* The step is one of core_loop (and not of a sender or of the sink).
IsCoreStep == pc' # pc \/ log' # log

NoAppliedIn(outs) == \A k \in 1..Len(outs) : outs[k].kind # "InteractionApplied"

\* The events `log'` adds to `log`.
NewEvents == SubSeq(log', Len(log) + 1, Len(log'))

\* C5 -- When the interaction core_loop applies (an Interaction input, or the
\* one synthesized for a Post input) returns a fault, that very step returns
\* Err with that fault: it sends no InteractionApplied, takes no later input,
\* and every entry of the space is exactly as before the step. After the
\* return nothing is taken, sent or changed.
C5_FaultStep ==
    (AboutToApply # <<>> /\ IsCoreStep) =>
        LET r == apply_interaction(entries, dim, AboutToApply[1]) IN
        ~r.result.ok =>
            /\ pc' = "done"
            /\ result' = TerminatedErr(r.result.err)
            /\ r.result.err.kind \in {"UserNotFound", "PostNotFound", "CoordNotLoaded", "Math"}
            /\ \A k \in 1..Len(NewEvents) :
                  NewEvents[k].ev = "emit" => NewEvents[k].output.kind # "InteractionApplied"
            /\ Len(out_chan') <= Len(out_chan) + 1
            /\ NoAppliedIn(SubSeq(out_chan', Len(out_chan) + 1, Len(out_chan')))
            /\ Len(in_chan') >= Len(in_chan) - 1
            /\ Len(entries') >= Len(entries)
            /\ \A i \in 1..Len(entries) : entries'[i] = entries[i]

C5_InteractionFault == [][C5_FaultStep /\ StaysReturned]_vars

\* An Interaction input faulted after an earlier Post had given a user a
\* coordinate: the loop has returned Err, the user still has coordinate and
\* motion, and a later input is left in the channel.
C5_Witness ==
    /\ pc = "done"
    /\ result.state = "Err"
    /\ result.err.kind \in {"UserNotFound", "PostNotFound", "CoordNotLoaded"}
    /\ log[Len(log)].ev = "recv"
    /\ log[Len(log)].input.kind = "Interaction"
    /\ \E i \in 1..Len(entries) :
          entries[i].tag = "User" /\ entries[i].coord # None /\ entries[i].motion > 0
    /\ in_chan # <<>>

SendPoints == {"send_post", "send_post_user", "send_user", "send_applied"}

\* The step is the failed send: core_loop leaves a send point with the
\* receiver gone.
FailedSendStep == pc \in SendPoints /\ out_closed /\ pc' # pc

\* C6 -- With the sink's receiver gone, the next send core_loop attempts
\* returns ChannelError (and ChannelError is returned only then); the entry
\* appended just before the send (the last of the list, the one being sent)
\* and the effect of the interaction just applied stay in the space; nothing
\* is taken, sent or changed afterwards.
C6_FailedSend ==
    /\ [][(FailedSendStep =>
              /\ pc' = "done"
              /\ result' = TerminatedErr(ChannelError)
              /\ entries' = entries
              /\ log' = log
              /\ in_chan' = in_chan)
          /\ StaysReturned]_vars
    /\ [](pc \in {"send_post", "send_post_user", "send_user"} =>
              (Len(entries) >= 1 /\ entries[Len(entries)] = pending.entry))
    /\ [](pc = "send_applied" =>
              \E i \in 1..Len(entries) :
                  /\ entries[i].tag = "User"
                  /\ entries[i].id = pending.res.dst_id
                  /\ entries[i].coord # None)
    /\ []((result.state = "Err" /\ result.err = ChannelError) => out_closed)

\* The sink went away while a Post input was being processed: the loop has
\* returned ChannelError, the post is in the space, an input is left unread.
C6_Witness ==
    /\ pc = "done"
    /\ result.state = "Err"
    /\ result.err = ChannelError
    /\ Len(entries) >= 1
    /\ entries[Len(entries)].tag = "Post"
    /\ log[Len(log)].ev = "recv"
    /\ in_chan # <<>>

\* The indices of the entries of `es` with this tag and id.
Matches(es, tag, id) == {i \in 1..Len(es) : es[i].tag = tag /\ es[i].id = id}

\* The entry of `es` at index j has an earlier entry with its tag and id.
IsDuplicate(es, j) == \E i \in 1..(j - 1) : es[i].tag = es[j].tag /\ es[i].id = es[j].id

\* The first entry of `es` with this tag and id (there is one).
FirstOf(es, tag, id) ==
    es[CHOOSE i \in Matches(es, tag, id) : ~IsDuplicate(es, i)]

\* The step applies the UserToUser Interaction input at the head of the
\* input channel, and both its users exist.
UserToUserStep ==
    /\ pc = "recv" /\ in_chan # <<>> /\ log' # log
    /\ Head(in_chan).kind = "Interaction"
    /\ Head(in_chan).interaction_type = "UserToUser"
    /\ Matches(entries, "User", Head(in_chan).src_id) # {}
    /\ Matches(entries, "User", Head(in_chan).dst_id) # {}

\* C7 -- A UserToUser interaction between two existing users faults with
\* CoordNotLoaded iff the actor or the target has no coordinate; the fault
\* carries the actor's id when the actor has none (also when the target has
\* none either), else the target's id; and the faulting call leaves every
\* entry, so both coordinates, as before.
C7_CoordNotLoadedStep ==
    UserToUserStep =>
        LET actor_id  == Head(in_chan).src_id
            target_id == Head(in_chan).dst_id
            a == FirstOf(entries, "User", actor_id)
            t == FirstOf(entries, "User", target_id)
            faulted == result'.state = "Err"
        IN  /\ faulted <=> (a.coord = None \/ t.coord = None)
            /\ faulted => result'.err.kind = "CoordNotLoaded"
            /\ a.coord = None => result' = TerminatedErr(CoordNotLoaded(actor_id))
            /\ (a.coord # None /\ t.coord = None) =>
                   result' = TerminatedErr(CoordNotLoaded(target_id))
            /\ faulted => entries' = entries

C7_CoordNotLoaded == [][C7_CoordNotLoadedStep]_vars

\* The actor has a coordinate and the target has none: the fault names the
\* target, which still has no coordinate.
C7_Witness ==
    /\ result = TerminatedErr(CoordNotLoaded("U2"))
    /\ log[Len(log)].input = Interaction("UserToUser", "U1", "U2", DefaultAlpha)
    /\ FirstOf(entries, "User", "U1").coord # None
    /\ FirstOf(entries, "User", "U2").coord = None

\* C8 -- A User entry that has a coordinate has one in every later state:
\* no step sets a present coordinate back to absent (so a coordinate goes
\* from absent to present at most once).
C8_CoordStaysStep ==
    \A i \in 1..Len(entries) :
        (entries[i].tag = "User" /\ entries[i].coord # None) =>
            /\ i <= Len(entries')
            /\ entries'[i].tag = "User"
            /\ entries'[i].coord # None

C8_CoordStaysLoaded == [][C8_CoordStaysStep]_vars

\* A UserToUser interaction between two different users was applied, after
\* each had been given a coordinate by a Post: both still have one.
C8_Witness ==
    /\ pc = "recv"
    /\ Len(log) >= 2
    /\ log[Len(log)].ev = "emit"
    /\ log[Len(log) - 1].ev = "recv"
    /\ log[Len(log) - 1].input.kind = "Interaction"
    /\ log[Len(log) - 1].input.interaction_type = "UserToUser"
    /\ log[Len(log) - 1].input.src_id # log[Len(log) - 1].input.dst_id
    /\ \A i \in 1..Len(entries) : entries[i].tag = "User" => entries[i].coord # None

\* C9 -- The entry list is append-only: in every step its length does not
\* decrease and every entry keeps its position, tag and id; what is added is
\* added at the end.
C9_AppendOnlyStep ==
    /\ Len(entries') >= Len(entries)
    /\ \A i \in 1..Len(entries) :
          entries'[i].tag = entries[i].tag /\ entries'[i].id = entries[i].id

C9_AppendOnly == [][C9_AppendOnlyStep]_vars

\* A PostToUser Interaction input whose user did not exist has appended that
\* user behind the entries of two earlier inputs.
C9_Witness ==
    /\ Len(entries) = 3
    /\ entries[3].tag = "User"
    /\ log[Len(log) - 1].ev = "recv"
    /\ log[Len(log) - 1].input.kind = "Interaction"
    /\ log[Len(log) - 1].input.interaction_type = "PostToUser"
    /\ entries[3].id \notin log[Len(log) - 1].users
    /\ entries[1].tag = "Post" /\ entries[2].tag = "User"

\* The step applies a PostToUser interaction (of an Interaction input or
\* synthesized) and it succeeds.
PostToUserApplied ==
    /\ AboutToApply # <<>>
    /\ AboutToApply[1].interaction_type = "PostToUser"
    /\ IsCoreStep
    /\ pc' = "send_applied"

\* C10 -- Only the first entry with a given tag and id is addressed: no step
\* changes an entry that has an earlier entry with its tag and id, so a
\* duplicate User has no coordinate and motion 0 in every state; and a
\* successful PostToUser interaction blends the first User with the
\* destination id toward the coordinate of the first Post with the source
\* id (never toward a duplicate's).
C10_FirstMatchStep ==
    /\ \A j \in 1..Len(entries) : IsDuplicate(entries, j) => entries'[j] = entries[j]
    /\ PostToUserApplied =>
          LET ia == AboutToApply[1]
              p == FirstOf(entries, "Post", ia.src_id).coord
              before == IF Matches(entries, "User", ia.dst_id) # {}
                           /\ FirstOf(entries, "User", ia.dst_id).coord # None
                        THEN FirstOf(entries, "User", ia.dst_id).coord[1]
                        ELSE p
              res == pending'.res
          IN  /\ res.similarity = kernel_apply(before, p).val
              /\ FirstOf(entries', "User", ia.dst_id).coord
                     = Some(apply_kernel2(before, p, res.weight).val)

C10_FirstMatchOnly ==
    /\ [][C10_FirstMatchStep]_vars
    /\ [](\A j \in 1..Len(entries) :
             (entries[j].tag = "User" /\ IsDuplicate(entries, j)) =>
                 (entries[j].coord = None /\ entries[j].motion = 0))

\* Two User entries share an id; an interaction has given the first one a
\* coordinate and a motion, the second one is as created.
C10_Witness ==
    \E i \in 1..Len(entries) : \E j \in (i + 1)..Len(entries) :
        /\ entries[i].tag = "User" /\ entries[j].tag = "User"
        /\ entries[i].id = entries[j].id
        /\ entries[i].coord # None /\ entries[i].motion > 0
        /\ entries[j].coord = None /\ entries[j].motion = 0

\* ------------------------------------------------------ library interface
\* MotionSpace, its constructor and its methods are public: a caller may
\* build a space of any dimension, enter entries and apply interactions
\* directly, without core_loop.

MaxCalls == 3

\* The dimensions a space is created with: the embedding dimension and
\* another one.
Dims == {EMBEDDING_DIM, EMBEDDING_DIM + 1}

\* main with MotionSpace::new(d) for a d of Dims.
DimInit ==
    /\ dim \in Dims
    /\ entries = <<>>
    /\ in_chan = <<>>
    /\ in_closed = FALSE
    /\ out_chan = <<>>
    /\ out_closed = FALSE
    /\ pc = "recv"
    /\ cur = NoInput
    /\ pending = NoOutput
    /\ result = Running
    /\ sent = <<>>
    /\ sink_log = <<>>
    /\ log = <<>>

DimSpec == DimInit /\ [][Next]_vars

\* A coordinate one longer than an embedding.
Wide == [i \in 1..(EMBEDDING_DIM + 1) |-> One]

\* The posts a caller enters: two embeddings and one coordinate of another
\* length.
ApiPosts ==
    <<MotionPost_new("P1", embed_post("hello")),
      MotionPost_new("P2", embed_post("hey")),
      MotionPost_new("P3", Wide)>>

ApiPostIds == {ApiPosts[i].id : i \in 1..Len(ApiPosts)}

\* alpha is an f32 the code never validates: the default and a negative one.
ApiAlphas == {DefaultAlpha, -One}

\* The entries a caller passes to enter.
ApiEntries ==
    {MotionUser_new(u, EMBEDDING_DIM) : u \in UserIds}
    \cup {ApiPosts[i] : i \in 1..Len(ApiPosts)}

\* The interactions a caller passes to apply_interaction.
ApiInteractions ==
    {Interaction("PostToUser", p, u, a) : p \in ApiPostIds, u \in UserIds, a \in ApiAlphas}
    \cup {Interaction("UserToUser", a, b, al) : a \in UserIds, b \in UserIds, al \in ApiAlphas}

\* History records of the calls: the entry entered; the interaction
\* applied, with the entries before the call and the Result returned.
EnterEv(entry) == [ev |-> "enter", entry |-> entry]
CallEv(interaction, before, ret) ==
    [ev |-> "call", input |-> interaction, before |-> before, ret |-> ret]

\* MotionSpace::new(EMBEDDING_DIM) followed by enter for the first posts of
\* ApiPosts.
ApiInit ==
    /\ dim = EMBEDDING_DIM
    /\ \E n \in 0..Len(ApiPosts) : entries = SubSeq(ApiPosts, 1, n)
    /\ in_chan = <<>>
    /\ in_closed = FALSE
    /\ out_chan = <<>>
    /\ out_closed = FALSE
    /\ pc = "recv"
    /\ cur = NoInput
    /\ pending = NoOutput
    /\ result = Running
    /\ sent = <<>>
    /\ sink_log = <<>>
    /\ log = <<>>

\* space.enter(entry)
ApiEnter ==
    /\ Len(log) < MaxCalls
    /\ \E e \in ApiEntries :
         /\ entries' = enter(entries, e)
         /\ log' = Append(log, EnterEv(e))
    /\ UNCHANGED <<dim, in_chan, in_closed, out_chan, out_closed, pc, cur,
                   pending, result, sent, sink_log>>

\* space.apply_interaction(interaction); the space stays usable after a
\* fault.
ApiApply ==
    /\ Len(log) < MaxCalls
    /\ \E ia \in ApiInteractions :
         \E r \in {apply_interaction(entries, dim, ia)} :
            /\ entries' = r.entries
            /\ log' = Append(log, CallEv(ia, entries, r.result))
    /\ UNCHANGED <<dim, in_chan, in_closed, out_chan, out_closed, pc, cur,
                   pending, result, sent, sink_log>>

ApiNext == ApiEnter \/ ApiApply

ApiSpec == ApiInit /\ [][ApiNext]_vars

\* --------------------------------------------------------------- C11 - C20
\* C11 -- In every reachable state of a space created with any dimension,
\* every stored coordinate (each Post's, each present User coordinate) has
\* length dim.
C11_CoordsHaveDim ==
    \A i \in 1..Len(entries) :
        IF entries[i].tag = "Post" THEN Len(entries[i].coord) = dim
        ELSE entries[i].coord # None => Len(entries[i].coord[1]) = dim

\* A space of another dimension than the embedding's has taken a Post input
\* and blended its user, without a fault: both stored coordinates have the
\* embedding's length.
C11_Witness ==
    /\ dim # EMBEDDING_DIM
    /\ result = Running
    /\ pc = "recv"
    /\ \E i \in 1..Len(entries) : entries[i].tag = "Post" /\ Len(entries[i].coord) # dim
    /\ \E i \in 1..Len(entries) :
          /\ entries[i].tag = "User" /\ entries[i].coord # None
          /\ Len(entries[i].coord[1]) # dim

\* The last call was apply_interaction (any result).
LastCall == log # <<>> /\ log[Len(log)].ev = "call"

\* C12 -- In every reachable state every User entry's motion is
\* non-negative, whatever alpha the interactions carry (alpha is not
\* validated: negative values included).
C12_MotionNonNegative ==
    \A i \in 1..Len(entries) : entries[i].tag = "User" => entries[i].motion >= 0

\* An interaction with a negative alpha succeeded with a negative weight and
\* left a user with a negative motion.
C12_Witness ==
    /\ LastCall
    /\ log[Len(log)].input.alpha < 0
    /\ log[Len(log)].ret.ok
    /\ log[Len(log)].ret.val.weight < 0
    /\ \E i \in 1..Len(entries) : entries[i].tag = "User" /\ entries[i].motion < 0

\* All inputs core_loop took so far, in order.
Taken ==
    LET F[i \in 0..Len(log)] ==
            IF i = 0 THEN <<>>
            ELSE IF log[i].ev = "recv" THEN Append(F[i - 1], log[i].input) ELSE F[i - 1]
    IN  F[Len(log)]

\* In every state: neither channel holds more than its capacity; what the
\* loop took followed by what the input channel holds is what was sent,
\* in that order; what the sink received followed by what the output
\* channel holds is what the loop sent, in that order (a prefix of it once
\* the sink has dropped its receiver).
ChannelsBoundedFifo ==
    /\ Len(in_chan) <= ChanCap
    /\ Len(out_chan) <= ChanCap
    /\ Taken \o in_chan = sent
    /\ IF out_closed THEN out_chan = <<>> /\ IsPrefix(sink_log, Emitted)
       ELSE sink_log \o out_chan = Emitted

\* In every step: nothing is sent on a full input channel; the loop,
\* suspended in a send on a full output channel whose receiver lives, stays
\* there and sends nothing; the space changes in steps of the loop only
\* (not in one of a sender or of the sink), and its dim never.
ChannelsBlockAndOwn ==
    /\ Len(in_chan) = ChanCap => sent' = sent
    /\ (Len(out_chan) = ChanCap /\ ~out_closed /\ pc \in SendPoints) =>
          (pc' = pc /\ Emitted' = Emitted /\ entries' = entries)
    /\ entries' # entries =>
          /\ IsCoreStep
          /\ sent' = sent /\ sink_log' = sink_log
          /\ in_closed' = in_closed /\ out_closed' = out_closed
    /\ dim' = dim

\* C13 -- The senders, core_loop and the sink exchange data through the two
\* channels only; each channel holds at most its capacity (64 in main,
\* ChanCap here), a sender on a full channel waits, and each channel
\* delivers in the order sent; the space is read and written by core_loop
\* only.
C13_ChannelsOnly == []ChannelsBoundedFifo /\ [][ChannelsBlockAndOwn]_vars

\* Both channels are full: a sender has to wait, and core_loop waits in the
\* send of the third output of a Post input.
C13_Witness ==
    /\ Len(in_chan) = ChanCap
    /\ Len(out_chan) = ChanCap
    /\ ~out_closed
    /\ pc = "send_applied"
    /\ sink_log = <<>>

\* The sink has received all there is: the output channel is empty, so that
\* its recv() yields None once core_loop has returned, and unless it dropped
\* its receiver it has received every output core_loop sent.
SinkDrained == out_chan = <<>> /\ (out_closed \/ sink_log = Emitted)

\* After core_loop returned a fault the sink drains the output channel.
SinkStopsAfterFault == (result.state = "Err") ~> SinkDrained

\* C14 -- After core_loop returns a fault both neighbours eventually stop:
\* the sink has received every output sent and finds the output channel
\* closed, and input_loop has returned (its Sender is dropped).
C14_NeighboursStop == (result.state = "Err") ~> (SinkDrained /\ in_closed)

\* core_loop returned a fault with inputs still buffered, the sink has
\* received everything, and input_loop has not returned.
C14_Witness ==
    /\ result.state = "Err"
    /\ SinkDrained /\ ~out_closed /\ sink_log # <<>>
    /\ in_chan # <<>>
    /\ ~in_closed

\* The step is a call of apply_interaction: its record is the last of log'.
ApplyStep == log' # log /\ log'[Len(log')].ev = "call"

\* The step is a call of apply_interaction with this tag.
ApplyStepOf(type) == ApplyStep /\ log'[Len(log')].input.interaction_type = type

\* C15 -- apply_post_to_user(user, post, alpha) returns PostNotFound iff the
\* space has no Post with the post id, and then creates no user (the space
\* is as before), whether or not the user exists. Otherwise: if no User with
\* the user id exists exactly one fresh User is appended at the end and
\* used, else no entry is added; a user without coordinate is seeded with
\* the post's coordinate before the similarity is computed (the similarity
\* is that of the post's coordinate with itself, and the motion that of a
\* fresh user); after a successful call the addressed user has a coordinate.
C15_PostToUserStep ==
    ApplyStepOf("PostToUser") =>
        LET call == log'[Len(log')]
            post_id == call.input.src_id
            user_id == call.input.dst_id
            no_post == Matches(entries, "Post", post_id) = {}
            no_user == Matches(entries, "User", user_id) = {}
            post_coord == FirstOf(entries, "Post", post_id).coord
            unloaded == no_user \/ FirstOf(entries, "User", user_id).coord = None
        IN  /\ (call.ret = Err(PostNotFound(post_id))) <=> no_post
            /\ no_post => entries' = entries
            /\ (~no_post /\ no_user) =>
                  /\ Len(entries') = Len(entries) + 1
                  /\ SubSeq(entries', 1, Len(entries)) = entries
                  /\ entries'[Len(entries')].tag = "User"
                  /\ entries'[Len(entries')].id = user_id
                  /\ call.ret.ok
                  /\ entries'[Len(entries')].motion = NewMotion(0, One, call.ret.val.weight)
            /\ (~no_post /\ ~no_user) => Len(entries') = Len(entries)
            /\ (~no_post /\ unloaded) =>
                  /\ call.ret.ok
                  /\ call.ret.val.similarity = kernel_apply(post_coord, post_coord).val
                  /\ FirstOf(entries', "User", user_id).coord
                        = Some(apply_kernel2(post_coord, post_coord, call.ret.val.weight).val)
            /\ call.ret.ok => FirstOf(entries', "User", user_id).coord # None

C15_PostToUser == [][C15_PostToUserStep]_vars

\* A PostToUser call for a user the space did not hold succeeded: the user
\* was appended and holds a coordinate.
C15_Witness ==
    /\ LastCall
    /\ log[Len(log)].input.interaction_type = "PostToUser"
    /\ log[Len(log)].ret.ok
    /\ Matches(log[Len(log)].before, "User", log[Len(log)].input.dst_id) = {}
    /\ Len(entries) = Len(log[Len(log)].before) + 1
    /\ entries[Len(entries)].id = log[Len(log)].input.dst_id
    /\ entries[Len(entries)].coord # None

\* The entries of `after` are those of `before` with only coordinates and
\* motions changed: none added, none removed, tags and ids in place.
SameEntries(before, after) ==
    /\ Len(after) = Len(before)
    /\ \A i \in 1..Len(before) :
          after[i].tag = before[i].tag /\ after[i].id = before[i].id

\* C16 -- apply_user_to_user(actor, target, alpha) never creates an entry.
\* It returns UserNotFound(actor) when no User with the actor id exists,
\* whatever the target; else UserNotFound(target) when no User with the
\* target id exists, also when the actor has no coordinate (a missing
\* participant is reported before any CoordNotLoaded); UserNotFound is
\* returned in no other case.
C16_UserNotFoundStep ==
    ApplyStepOf("UserToUser") =>
        LET call == log'[Len(log')]
            actor_id == call.input.src_id
            target_id == call.input.dst_id
            no_actor == Matches(entries, "User", actor_id) = {}
            no_target == Matches(entries, "User", target_id) = {}
        IN  /\ SameEntries(entries, entries')
            /\ no_actor => call.ret = Err(UserNotFound(actor_id))
            /\ (~no_actor /\ no_target) => call.ret = Err(UserNotFound(target_id))
            /\ (~call.ret.ok /\ call.ret.err.kind = "UserNotFound") =>
                   ((no_actor \/ no_target) /\ entries' = entries)

C16_UserNotFound == [][C16_UserNotFoundStep]_vars

\* The actor exists without coordinate and the target does not exist: the
\* call returned UserNotFound(target).
C16_Witness ==
    /\ LastCall
    /\ log[Len(log)].input.interaction_type = "UserToUser"
    /\ Matches(log[Len(log)].before, "User", log[Len(log)].input.src_id) # {}
    /\ FirstOf(log[Len(log)].before, "User", log[Len(log)].input.src_id).coord = None
    /\ Matches(log[Len(log)].before, "User", log[Len(log)].input.dst_id) = {}
    /\ log[Len(log)].ret = Err(UserNotFound(log[Len(log)].input.dst_id))
    /\ entries = log[Len(log)].before

\* C17 -- An apply_interaction call that returns a fault (UserNotFound,
\* PostNotFound, CoordNotLoaded or Math/DimensionMismatch, by either rule)
\* leaves the space as it was before the call: same entries, coordinates
\* and motions; also when the entries involved hold coordinates of
\* different lengths.
C17_FaultStep ==
    (ApplyStep /\ ~log'[Len(log')].ret.ok) => entries' = entries

C17_FaultLeavesSpace == [][C17_FaultStep]_vars

\* A PostToUser call blending a user that has a coordinate and a motion
\* toward a post whose coordinate has another length returned the Math
\* fault, after which the space is as before the call.
C17_Witness ==
    /\ LastCall
    /\ log[Len(log)].input.interaction_type = "PostToUser"
    /\ ~log[Len(log)].ret.ok
    /\ log[Len(log)].ret.err.kind = "Math"
    /\ FirstOf(entries, "User", log[Len(log)].input.dst_id).motion # 0
    /\ entries = log[Len(log)].before

\* The step is a successful UserToUser call that leaves the target's motion
\* at 0.98 * (its motion before) + 1.0 * w and the actor's at
\* 0.98 * (its motion before) + 0.5 * w, w being the weight returned.
MotionUpdated ==
    LET call == log'[Len(log')]
        w == call.ret.val.weight
        actor_id == call.input.src_id
        target_id == call.input.dst_id
    IN  /\ FirstOf(entries', "User", target_id).motion
              = Mul(One - One \div 50, FirstOf(entries, "User", target_id).motion)
                + Mul(One, w)
        /\ FirstOf(entries', "User", actor_id).motion
              = Mul(One - One \div 50, FirstOf(entries, "User", actor_id).motion)
                + Mul(One \div 2, w)

SuccessfulUserToUser == ApplyStepOf("UserToUser") /\ log'[Len(log')].ret.ok

\* The motion update holds for every successful UserToUser call whose actor
\* and target ids differ.
MotionUpdatedDistinct ==
    [][(SuccessfulUserToUser
        /\ log'[Len(log')].input.src_id # log'[Len(log')].input.dst_id)
       => MotionUpdated]_vars

\* C18 -- After every successful UserToUser interaction with weight w the
\* target's motion is 0.98 * (its motion before) + 1.0 * w and the actor's
\* is 0.98 * (its motion before) + 0.5 * w, for every pair of ids, the
\* actor's id equal to the target's included.
C18_MotionUpdate == [][SuccessfulUserToUser => MotionUpdated]_vars

\* A user interacted with itself with a non-zero weight w: its motion is
\* 0.98 * (its motion before) + 0.5 * w, the actor's update, and not the
\* target's.
C18_Witness ==
    /\ LastCall
    /\ log[Len(log)].input.interaction_type = "UserToUser"
    /\ log[Len(log)].input.src_id = log[Len(log)].input.dst_id
    /\ log[Len(log)].ret.ok
    /\ log[Len(log)].ret.val.weight # 0
    /\ LET id == log[Len(log)].input.src_id
           m == FirstOf(log[Len(log)].before, "User", id).motion
           w == log[Len(log)].ret.val.weight
       IN  /\ FirstOf(entries, "User", id).motion = Mul(One - One \div 50, m) + Mul(One \div 2, w)
           /\ FirstOf(entries, "User", id).motion # Mul(One - One \div 50, m) + Mul(One, w)

\* C19 -- apply_interaction routes by tag and keeps the roles of the ids.
\* PostToUser: src_id is looked up as a post (PostNotFound(src_id) iff there
\* is no such Post, never UserNotFound) and dst_id as the user (it exists
\* and holds a coordinate after success). UserToUser: src_id is the actor
\* and dst_id the target (a missing actor is reported first, as is an actor
\* without coordinate; between different users the dst_id gets the target
\* gain 1.0 and the src_id the actor gain 0.5). The InteractionResult of a
\* successful call carries the src_id and dst_id of the Interaction.
C19_RoutingStep ==
    ApplyStep =>
        LET call == log'[Len(log')]
            ia == call.input
            users == {ia.src_id, ia.dst_id}
        IN  /\ call.ret.ok =>
                  (call.ret.val.src_id = ia.src_id /\ call.ret.val.dst_id = ia.dst_id)
            /\ ia.interaction_type = "PostToUser" =>
                  /\ (call.ret = Err(PostNotFound(ia.src_id)))
                        <=> (Matches(entries, "Post", ia.src_id) = {})
                  /\ ~call.ret.ok => call.ret.err.kind \in {"PostNotFound", "Math"}
                  /\ call.ret.ok =>
                        /\ Matches(entries', "User", ia.dst_id) # {}
                        /\ FirstOf(entries', "User", ia.dst_id).coord # None
            /\ ia.interaction_type = "UserToUser" =>
                  /\ ~call.ret.ok => call.ret.err.kind # "PostNotFound"
                  /\ Matches(entries, "User", ia.src_id) = {}
                        => call.ret = Err(UserNotFound(ia.src_id))
                  /\ (\A u \in users : Matches(entries, "User", u) # {})
                        /\ FirstOf(entries, "User", ia.src_id).coord = None
                        => call.ret = Err(CoordNotLoaded(ia.src_id))
                  /\ (call.ret.ok /\ ia.src_id # ia.dst_id) =>
                        /\ FirstOf(entries', "User", ia.dst_id).motion
                              = NewMotion(FirstOf(entries, "User", ia.dst_id).motion,
                                          One, call.ret.val.weight)
                        /\ FirstOf(entries', "User", ia.src_id).motion
                              = NewMotion(FirstOf(entries, "User", ia.src_id).motion,
                                          One \div 2, call.ret.val.weight)

C19_Routing == [][C19_RoutingStep]_vars

\* A UserToUser call between two different users succeeded with a non-zero
\* weight: its result carries the ids as given.
C19_Witness ==
    /\ LastCall
    /\ log[Len(log)].input.interaction_type = "UserToUser"
    /\ log[Len(log)].input.src_id # log[Len(log)].input.dst_id
    /\ log[Len(log)].ret.ok
    /\ log[Len(log)].ret.val.weight # 0
    /\ log[Len(log)].ret.val.src_id = log[Len(log)].input.src_id
    /\ log[Len(log)].ret.val.dst_id = log[Len(log)].input.dst_id

\* The index of the first entry of `es` with this tag and id (there is one).
FirstIdx(es, tag, id) == CHOOSE i \in Matches(es, tag, id) : ~IsDuplicate(es, i)

\* Every entry of `after` at an index outside `touched` is in `before`, at
\* the same index and unchanged.
OnlyChanged(before, after, touched) ==
    \A i \in (1..Len(after)) \ touched : i <= Len(before) /\ after[i] = before[i]

\* C20 -- Frame of a successful interaction. PostToUser: apart from the
\* first User with the destination id (possibly appended by the call) every
\* entry is as before, and that one keeps its tag and id. UserToUser: no
\* entry is added and all but the first User with the actor id and the first
\* with the target id are as before. In every step (enter and faulting calls
\* included) every Post entry stays as it is, and dim does not change (the
\* kernel is the fixed RBF with gamma 2.0).
C20_FrameStep ==
    /\ dim' = dim
    /\ \A i \in 1..Len(entries) :
          entries[i].tag = "Post" => (i <= Len(entries') /\ entries'[i] = entries[i])
    /\ (ApplyStepOf("PostToUser") /\ log'[Len(log')].ret.ok) =>
          LET user_id == log'[Len(log')].input.dst_id
              k == FirstIdx(entries', "User", user_id)
          IN  /\ OnlyChanged(entries, entries', {k})
              /\ Len(entries') \in {Len(entries), Len(entries) + 1}
              /\ k <= Len(entries) => SameEntries(entries, entries')
              /\ k > Len(entries) => (k = Len(entries') /\ Len(entries') = Len(entries) + 1)
    /\ SuccessfulUserToUser =>
          LET ia == log'[Len(log')].input
          IN  /\ SameEntries(entries, entries')
              /\ OnlyChanged(entries, entries',
                             {FirstIdx(entries, "User", ia.src_id),
                              FirstIdx(entries, "User", ia.dst_id)})

C20_Frame == [][C20_FrameStep]_vars

\* A PostToUser call succeeded on a space holding a post and two User
\* entries with the destination id: the first has a coordinate and a motion,
\* the second and the post are as before the call.
C20_Witness ==
    /\ LastCall
    /\ log[Len(log)].input.interaction_type = "PostToUser"
    /\ log[Len(log)].ret.ok
    /\ LET id == log[Len(log)].input.dst_id
           before == log[Len(log)].before
       IN  /\ Cardinality(Matches(before, "User", id)) = 2
           /\ FirstOf(entries, "User", id) # FirstOf(before, "User", id)
           /\ \A i \in 1..Len(before) :
                 i # FirstIdx(before, "User", id) => entries[i] = before[i]

\* --------------------------------------------------------------- C21 - C26
\* The step applies the interaction synthesized for the Post input `cur`,
\* and it succeeds.
SynthesizedApplied ==
    /\ pc \in {"send_post", "send_post_user"}
    /\ pc' = "send_applied"

\* C21 -- The Post-to-User interaction synthesized for a Post input uses the
\* post created by that input: the user is blended toward (and, having no
\* coordinate, seeded with) the embedding of this input's text, also when
\* the space holds an earlier Post with the same id.
C21_OwnPostStep ==
    SynthesizedApplied =>
        LET p == embed_post(cur.text)
            before == IF Matches(entries, "User", cur.user_id) # {}
                         /\ FirstOf(entries, "User", cur.user_id).coord # None
                      THEN FirstOf(entries, "User", cur.user_id).coord[1]
                      ELSE p
            res == pending'.res
        IN  /\ res.similarity = kernel_apply(before, p).val
            /\ FirstOf(entries', "User", cur.user_id).coord
                  = Some(apply_kernel2(before, p, res.weight).val)

C21_OwnPost == [][C21_OwnPostStep]_vars

\* The interaction synthesized for a Post input whose id an earlier Post
\* with another coordinate has was applied: the input's user, new to the
\* space, holds the earlier post's coordinate blended with itself, which is
\* not what the embedding of the input's text gives.
C21_Witness ==
    /\ pc = "send_applied"
    /\ cur.kind = "Post"
    /\ Cardinality(Matches(entries, "Post", cur.id)) = 2
    /\ FirstOf(entries, "Post", cur.id).coord # embed_post(cur.text)
    /\ LET first == FirstOf(entries, "Post", cur.id).coord
           own == embed_post(cur.text)
           w == pending.res.weight
           now == FirstOf(entries, "User", cur.user_id).coord
       IN  /\ now = Some(apply_kernel2(first, first, w).val)
           /\ now # Some(apply_kernel2(own, own, w).val)

\* The synthesized interaction does use the input's own post when no
\* earlier Post has its id.
OwnPostWhenUnique ==
    [][(SynthesizedApplied /\ Cardinality(Matches(entries, "Post", cur.id)) = 1)
          => C21_OwnPostStep]_vars

\* core_loop is processing a Post input: it takes one in this step, or is
\* suspended in one of the sends of the Post branch.
ProcessingPost ==
    \/ pc = "recv" /\ in_chan # <<>> /\ Head(in_chan).kind = "Post"
    \/ pc \in {"send_post", "send_post_user"}
    \/ pc = "send_applied" /\ cur.kind = "Post"

\* C22 -- Processing a Post input ends core_loop only with ChannelError:
\* a step of the Post branch that returns does so with ChannelError and
\* with the output receiver dropped; while the receiver lives the
\* synthesized interaction is applied without fault (no PostNotFound,
\* UserNotFound, CoordNotLoaded or DimensionMismatch), whatever entries,
\* duplicates included, the space holds.
C22_PostFaultStep ==
    (ProcessingPost /\ pc' = "done") =>
        (out_closed /\ result' = TerminatedErr(ChannelError))

C22_PostOnlyChannelError == [][C22_PostFaultStep]_vars

\* The interaction synthesized for a Post input was applied without fault
\* in a space holding an earlier Post with its id and a user that already
\* had another coordinate.
C22_Witness ==
    /\ pc = "send_applied"
    /\ cur.kind = "Post"
    /\ Cardinality(Matches(entries, "Post", cur.id)) = 2
    /\ pending.res.similarity < One
    /\ result = Running

\* The log indices of the Entered outputs sent.
EnteredIdx == {i \in 1..Len(log) : log[i].ev = "emit" /\ log[i].output.kind = "Entered"}

\* The log indices of the InteractionApplied outputs sent.
AppliedIdx ==
    {i \in 1..Len(log) : log[i].ev = "emit" /\ log[i].output.kind = "InteractionApplied"}

\* C23 -- Every entry of the space has been announced to the sink. Whenever
\* core_loop is between two inputs and no send has failed, as many Entered
\* outputs were sent as the space has entries, and every InteractionApplied
\* sent is preceded by an Entered for the entry of its src_id and by one
\* for the entry of its dst_id; a user auto-created by a PostToUser
\* Interaction input included.
C23_AllAnnounced ==
    (pc = "recv" /\ result = Running) =>
        /\ Cardinality(EnteredIdx) = Len(entries)
        /\ \A i \in AppliedIdx :
              \A id \in {log[i].output.res.src_id, log[i].output.res.dst_id} :
                  \E j \in EnteredIdx : j < i /\ log[j].output.entry.id = id

\* A PostToUser Interaction input for a user the space did not hold was
\* applied and its InteractionApplied sent: the space holds the user, and
\* no Entered was sent for it.
C23_Witness ==
    /\ pc = "recv" /\ result = Running
    /\ Len(log) >= 2
    /\ log[Len(log)].ev = "emit"
    /\ log[Len(log)].output.kind = "InteractionApplied"
    /\ log[Len(log) - 1].ev = "recv"
    /\ log[Len(log) - 1].input.kind = "Interaction"
    /\ log[Len(log) - 1].input.interaction_type = "PostToUser"
    /\ log[Len(log) - 1].input.dst_id \notin log[Len(log) - 1].users
    /\ Matches(entries, "User", log[Len(log) - 1].input.dst_id) # {}
    /\ \A j \in EnteredIdx : log[j].output.entry.id # log[Len(log) - 1].input.dst_id
    /\ Cardinality(EnteredIdx) = Len(entries) - 1

\* All entries are announced in the runs that took no PostToUser
\* Interaction input for a user the space did not hold.
AnnouncedWithoutAutoCreate ==
    (\A i \in RecvIdx :
        ~(/\ log[i].input.kind = "Interaction"
          /\ log[i].input.interaction_type = "PostToUser"
          /\ log[i].input.dst_id \notin log[i].users))
    => C23_AllAnnounced

\* --------------------------------------------------- the composed pipeline
\* input_loop's known_users: the ids it has sent a User input for
\* (known.insert(id) is followed at once by the send of User(id)).
KnownUsers == {sent[i].id : i \in {j \in 1..Len(sent) : sent[j].kind = "User"}}

\* Mutant: every input may be sent, whether its users are known or not.
InputLoopInputs_NoEnsure == Inputs

\* What input_loop can send next. ensure_user sends User(id) for an id that
\* is not known; a Post is sent for the current user or the one named in
\* `uid: text`, an Interaction for the users named, each after ensure_user,
\* so for known users. The current user is any known one (`s <id>` sends
\* nothing for a known id); a post id comes from the clock, an
\* interaction's post id from the line.
InputLoopInputs ==
    {UserInput(u) : u \in UserIds \ KnownUsers}
    \cup {PostInput(p, u, TextOf(u)) : p \in PostIds, u \in KnownUsers}
    \cup {Interaction("PostToUser", p, u, DefaultAlpha) : p \in PostIds, u \in KnownUsers}
    \cup {Interaction("UserToUser", a, b, DefaultAlpha) : a \in KnownUsers, b \in KnownUsers}

\* input_loop sends its next input.
InputLoopSend == SendFrom(InputLoopInputs)

\* main: input_loop, core_loop and the sink. The send after Entered(user)
\* of the Post branch is left out: core_loop is never suspended there (this
\* is part of C24 below).
PipeNext ==
    \/ InputLoopSend
    \/ SendRejected
    \/ CloseInput
    \/ SinkRecv
    \/ SinkDrop
    \/ RecvUser
    \/ RecvPost
    \/ RecvInteraction
    \/ RecvClosed
    \/ SendPostEntered
    \/ SendUserEntered
    \/ SendApplied

PipeSpec == Init /\ [][PipeNext]_vars

\* The user ids an input refers to as users.
UsersNamed(inp) ==
    IF inp.kind = "Post" THEN {inp.user_id}
    ELSE IF inp.kind = "Interaction"
    THEN (IF inp.interaction_type = "PostToUser" THEN {inp.dst_id}
          ELSE {inp.src_id, inp.dst_id})
    ELSE {}

\* In every state of the pipeline: a User input is sent at most once per id
\* and before every Post or Interaction input naming the id as a user; no
\* two User entries share an id; core_loop is not in the branch that creates
\* the user of a Post input; it has not returned UserNotFound.
PipeUsersOnce ==
    /\ \A i \in 1..Len(sent) : \A j \in (i + 1)..Len(sent) :
          (sent[i].kind = "User" /\ sent[j].kind = "User") => sent[i].id # sent[j].id
    /\ \A j \in 1..Len(sent) : \A u \in UsersNamed(sent[j]) :
          \E i \in 1..(j - 1) : sent[i] = UserInput(u)
    /\ \A i \in 1..Len(entries) :
          entries[i].tag = "User" => ~IsDuplicate(entries, i)
    /\ pc # "send_post_user"
    /\ result.state = "Err" => result.err.kind # "UserNotFound"

\* In every step of the pipeline: an entry is added only when a User or a
\* Post input is taken (one entry, never by an interaction).
PipeNoAutoCreate ==
    Len(entries') # Len(entries) =>
        /\ Len(entries') = Len(entries) + 1
        /\ pc = "recv" /\ in_chan # <<>>
        /\ Head(in_chan).kind \in {"User", "Post"}

\* C24 -- In the pipeline of main, input_loop sends a User input for each
\* user id exactly once, before the first Post or Interaction input naming
\* it as a user; so no two User entries share an id, the auto-create
\* branches of the core (Post input with unseen user, PostToUser with absent
\* user) never fire, and no interaction fails with UserNotFound.
C24_UsersAnnouncedOnce == []PipeUsersOnce /\ [][PipeNoAutoCreate]_vars

\* A User input, a Post input of that user and a PostToUser Interaction
\* input for it were sent and processed: the space holds the user once and
\* the post.
C24_Witness ==
    /\ pc = "recv" /\ result = Running
    /\ Len(sent) = 3 /\ in_chan = <<>>
    /\ sent[1].kind = "User" /\ sent[2].kind = "Post" /\ sent[3].kind = "Interaction"
    /\ sent[3].interaction_type = "PostToUser"
    /\ Len(entries) = 2
    /\ Cardinality(AppliedIdx) = 2

\* The number of inputs core_loop has processed to their end: those taken,
\* less the one it is still at (suspended in a send) or gave up (returned a
\* fault).
ProcessedCount ==
    IF pc = "recv" \/ result.state = "Ok" THEN Len(Taken)
    ELSE IF Len(Taken) = 0 THEN 0 ELSE Len(Taken) - 1

\* A sender waits for room in the input channel.
SenderWaits == ~in_closed /\ pc # "done" /\ Len(in_chan) = ChanCap

\* core_loop waits at rx.recv() for an input, or in a send for room in the
\* output channel.
LoopWaits ==
    \/ pc = "recv" /\ in_chan = <<>> /\ ~in_closed
    \/ pc \in SendPoints /\ ~out_closed /\ Len(out_chan) = ChanCap

\* The sink waits for an output.
SinkWaits == ~out_closed /\ out_chan = <<>>

\* In no state do a sender, core_loop and the sink all wait; and while
\* core_loop runs with an input buffered, it or the sink can take a step.
NoCircularWait ==
    /\ ~(SenderWaits /\ LoopWaits /\ SinkWaits)
    /\ (pc # "done" /\ in_chan # <<>>) =>
          (~LoopWaits \/ (~out_closed /\ out_chan # <<>>))

\* C25 -- The pipeline does not deadlock and loses no input: unless a fault
\* occurs, the k-th input sent is eventually taken and processed to its
\* end by core_loop (with the sink receiving), also when it was still
\* buffered when the input channel was closed; and in no state do the
\* sender, the loop and the sink all wait for one another.
C25_NoDeadlockNoLoss ==
    /\ []NoCircularWait
    /\ \A k \in 1..MaxInputs :
          (Len(sent) >= k) ~> (result.state = "Err" \/ ProcessedCount >= k)

\* As many inputs as a run sends were sent, core_loop has processed them
\* all and returned Ok, and the sink has received every output.
C25_Witness ==
    /\ result.state = "Ok"
    /\ Len(sent) = MaxInputs
    /\ ProcessedCount = MaxInputs
    /\ sink_log = Emitted
    /\ Len(sink_log) >= MaxInputs

\* An output core_loop may send: Entered or InteractionApplied, an
\* Entered(User) showing the user as created.
CoreOutput(o) ==
    /\ o.kind \in {"Entered", "InteractionApplied"}
    /\ (o.kind = "Entered" /\ o.entry.tag = "User") =>
          (o.entry.coord = None /\ o.entry.motion = 0)

\* C26 -- core_loop never emits Updated: every output it sends, that the
\* output channel holds and that the sink receives is Entered or
\* InteractionApplied, and an Entered(User) shows the user as created (no
\* coordinate, motion 0); the coordinate and motion a user has after an
\* interaction are never sent.
C26_NoUpdated ==
    /\ \A i \in 1..Len(Emitted) : CoreOutput(Emitted[i])
    /\ \A i \in 1..Len(out_chan) : CoreOutput(out_chan[i])
    /\ \A i \in 1..Len(sink_log) : CoreOutput(sink_log[i])
    /\ pending # NoOutput => CoreOutput(pending)

\* A user has a coordinate and a motion from two interactions, and the
\* sink, which has received every output, was shown it without coordinate
\* and with motion 0 only.
C26_Witness ==
    /\ pc = "recv"
    /\ sink_log = Emitted
    /\ Cardinality(AppliedIdx) = 2
    /\ \E i \in 1..Len(entries) :
          /\ entries[i].tag = "User"
          /\ entries[i].coord # None
          /\ entries[i].motion > One \div 2
          /\ \E k \in 1..Len(sink_log) :
                sink_log[k] = Entered(MotionUser_new(entries[i].id, dim))

====
